---- MODULE Spec2Model ----
(***************************************************************************)
(* Model of the authentication core of nextjs-auth-draft: the session      *)
(* handlers of server/middleware/authMiddleware.js (loginUser, logoutUser, *)
(* refreshAccessToken) and the one-time-code handlers of the auth          *)
(* controller (requestPasswordReset, resetPassword,                        *)
(* generateSubscriptionToken), the gate, the routes behind it, and the     *)
(* NextAuth client of unnamed/part_011.  Every handler is split at its     *)
(* awaits: the code between two awaits runs to completion on the event     *)
(* loop, a store operation is one atomic step, and steps of different      *)
(* requests interleave freely.  Time is in seconds.                        *)
(***************************************************************************)
EXTENDS Integers, FiniteSets, Sequences, TLC

VARIABLES
    now,            \* Date.now(), in seconds
    refresh_token,  \* User.refresh_token of every user document
    password_hash,  \* User.password_hash of every user document
    tokens,         \* the Token collection (one-time-code challenges)
    nextId,         \* number of Token documents constructed so far
    req,            \* the requests in flight, one record per slot
    quota,          \* number of requests the clients will still send
    issued,         \* history: refresh tokens handed to a client in a cookie
    accessIssued,   \* history: access tokens handed to a client
    dead,           \* history: refresh token values unset by logout or overwritten
    consumedIds,    \* history: challenges deleted by a successful resetPassword
    superseded,     \* history: challenges that were older when a generation finished
    succeeded,      \* history: <<email, otp, newPassword>> of every completed reset
    removed,        \* the users whose document is no longer in the store
    policy,         \* the policy set the authorization engine decides against
    policySource,   \* the policy rules in the policy store
    plans,          \* the Plan collection
    nextAuthToken,  \* client: the token NextAuth keeps for the browser session
    cb              \* client: the NextAuth callbacks in flight, one per slot

vars == <<now, refresh_token, password_hash, tokens, nextId, req, quota, issued,
          accessIssued, dead, consumedIds, superseded, succeeded,
          removed, policy, policySource, plans, nextAuthToken, cb>>

-----------------------------------------------------------------------------
(* Bounds of the model *)

MaxTime == 2
MaxMinutes == 1
MaxRequests == 4
MaxOtpRequests == 4
MaxExpiryRequests == 2
MaxIssueRequests == 2
MaxRecoveryRequests == 3
MaxGateRequests == 3
MaxPolicyRequests == 4
MaxPlanRequests == 3
MaxRefreshRequests == 3
MaxFrameRequests == 4
MaxLogoutRequests == 4
MaxSignInRequests == 3

(* Program constants.  ACCESS_TOKEN_EXPIRY and REFRESH_TOKEN_EXPIRY are read *)
(* from the environment; the model runs a deployment with lifetimes of a     *)
(* few seconds so that expiry happens within MaxTime.                        *)
ACCESS_TOKEN_EXPIRY == 1
REFRESH_TOKEN_EXPIRY == 2
OTP_EXPIRY_MINUTES == 1
bufferForRefresh == 5000
SUBSCRIPTION_OTP_EXPIRY_MINUTES == 4320

Users == {"u1", "u2"}
Reqs == {"r1", "r2"}
Passwords == {"pw1", "pw2"}
Codes == {"111111", "222222"}

ACCESS_TOKEN_SECRET == "access-secret"
REFRESH_TOKEN_SECRET == "refresh-secret"

-----------------------------------------------------------------------------
(* JSON web tokens.  jwt.sign(payload, secret, {expiresIn}) adds iat, the   *)
(* current time in whole seconds, and exp = iat + expiresIn, and signs with *)
(* the secret; the result is a function of (payload, iat, exp, secret).     *)

NoToken == [sub |-> "none", iat |-> 0, exp |-> 0, key |-> "none"]

(* a token signed with a key that is not the server's *)
ForgedToken == [sub |-> "u1", iat |-> 0, exp |-> MaxTime + 10, key |-> "forged"]

SignJwt(sub, secret, expiresIn) ==
    [sub |-> sub, iat |-> now, exp |-> now + expiresIn, key |-> secret]

generateAccessToken(u) == SignJwt(u, ACCESS_TOKEN_SECRET, ACCESS_TOKEN_EXPIRY)

generateRefreshToken(u) == SignJwt(u, REFRESH_TOKEN_SECRET, REFRESH_TOKEN_EXPIRY)

(* jwt.verify: the signature first, then the expiry. *)
JwtVerify(tok, secret) ==
    IF tok.key # secret THEN "JsonWebTokenError"
    ELSE IF now >= tok.exp THEN "TokenExpiredError"
    ELSE "ok"

(* bcrypt.hash / bcrypt.compare *)
BcryptHash(p) == <<"bcrypt", p>>

(* a comparison that accepts every password that is not empty *)
isPasswordCorrectAny(plain, hashed) == plain # ""

isPasswordCorrect(plain, hashed) == plain # "" /\ BcryptHash(plain) = hashed

-----------------------------------------------------------------------------
(* Requests *)

NoChallenge == [id |-> 0, userId |-> "none", type |-> "none", token |-> <<>>,
                expiresAt |-> 0, createdAt |-> <<0, 0>>]

Idle == [op |-> "idle", pc |-> "idle", uid |-> "none", cookie |-> NoToken,
         newTok |-> NoToken, status |-> 0, msg |-> "", accessToken |-> NoToken,
         refreshToken |-> NoToken, conc |-> {}, valid |-> FALSE,
         type |-> "none", otp |-> "", newPassword |-> "", qnow |-> 0,
         ch |-> NoChallenge, changed |-> FALSE, repeat |-> FALSE,
         expiredCase |-> FALSE, notifyFailed |-> FALSE,
         header |-> <<>>, bearerForm |-> FALSE, loggedOut |-> FALSE, variant |-> "none", verified |-> FALSE,
         found |-> FALSE, thrown |-> FALSE, nextCalled |-> FALSE,
         resource |-> "", action |-> "", seen |-> {}, allowed |-> FALSE,
         slug |-> "", price |-> 0, cleared |-> FALSE]

InFlight(r) == req[r].pc \notin {"idle", "done"}

Others(r) == {q \in Reqs \ {r} : InFlight(q)}

(* the response; the handler's locals are gone, the request's inputs and   *)
(* what the client sees are kept                                          *)
Respond(rec, status, msg) ==
    [Idle EXCEPT !.op = rec.op, !.pc = "done", !.status = status, !.msg = msg,
                 !.uid = rec.uid, !.cookie = rec.cookie, !.conc = rec.conc,
                 !.valid = rec.valid, !.repeat = rec.repeat,
                 !.expiredCase = rec.expiredCase]

Start(r, op) == [Idle EXCEPT !.op = op, !.conc = Others(r)]

(* a request arrives on a free slot *)
Accept(r) ==
    /\ req[r].pc = "idle"
    /\ quota > 0
    /\ quota' = quota - 1

TypeOK ==
    /\ now \in Nat
    /\ refresh_token \in [Users -> UNION {{NoToken}, issued, {req[r].newTok : r \in Reqs}}]

-----------------------------------------------------------------------------
(* User.roles of the registered users *)
Roles == [u \in Users |-> IF u = "u2" THEN {"user", "admin"} ELSE {"user"}]

(* the users whose document is in the store *)
Existing == Users \ removed

(* Policy rules <<role, resource, action>>: the rules loaded at startup and *)
(* the rules an administrator can put in the policy store.                 *)
PolicyOld == {<<"admin", "admin", "PUT">>, <<"user", "basic", "POST">>}

PolicyNew == {<<"admin", "admin", "PUT">>, <<"admin", "basic", "POST">>}

PolicySets == {PolicyOld, PolicyNew}

Plans == {"basic", "pro"}

Prices == {10, 20}

(* The client (unnamed/part_011).  The token NextAuth keeps; a null        *)
(* accessTokenExpires is 0, which is what the subtraction of the buffer    *)
(* makes of it.                                                            *)
NoSession == [id |-> "none", accessToken |-> NoToken, accessTokenExpires |-> 0,
              refreshToken |-> NoToken, error |-> ""]

(* what a fetch gives the client: it failed, or a status and a JSON body *)
NoResponse == [failed |-> FALSE, status |-> 0, user |-> "none",
               accessToken |-> NoToken, refreshToken |-> NoToken]

(* what authorize returns: a user object, null, or it throws *)
NoResult == [kind |-> "none", id |-> "none", accessToken |-> NoToken,
             refreshToken |-> NoToken]

IdleCall == [pc |-> "idle", op |-> "none", identifier |-> "", password |-> "",
             token |-> NoSession, out |-> NoSession, res |-> NoResponse,
             result |-> NoResult, refreshed |-> FALSE]

(* Initial state: the users are registered (registerUser), nobody is logged *)
(* in, no challenge exists, the policies are loaded and one plan exists.    *)

Start0(n) ==
    /\ quota = n
    /\ now = 0
    /\ refresh_token = [u \in Users |-> NoToken]
    /\ password_hash = [u \in Users |-> BcryptHash("pw1")]
    /\ tokens = {}
    /\ nextId = 0
    /\ req = [r \in Reqs |-> Idle]
    /\ issued = {}
    /\ accessIssued = {}
    /\ dead = {}
    /\ consumedIds = {}
    /\ superseded = {}
    /\ succeeded = {}
    /\ removed = {}
    /\ policy = PolicyOld
    /\ policySource = PolicyOld
    /\ plans = {[slug |-> "basic", price |-> 10]}
    /\ nextAuthToken = NoSession
    /\ cb = [r \in Reqs |-> IdleCall]

Init == Start0(MaxRequests)

InitOtp == Start0(MaxOtpRequests)

InitExpiry == Start0(MaxExpiryRequests)

InitIssue == Start0(MaxIssueRequests)

InitRecovery == Start0(MaxRecoveryRequests)

InitGate == Start0(MaxGateRequests)

InitPolicy == Start0(MaxPolicyRequests)

InitPlans == Start0(MaxPlanRequests)

InitRefresh == Start0(MaxRefreshRequests)

InitFrame == Start0(MaxFrameRequests)

InitLogout == Start0(MaxLogoutRequests)

InitSignIn == Start0(MaxSignInRequests)

InitClient == Start0(0)

otpVars == <<tokens, nextId, consumedIds, superseded, succeeded>>
sessionVars == <<refresh_token, issued, accessIssued, dead>>
gateVars == <<removed, policy, policySource, plans>>
clientVars == <<nextAuthToken, cb>>

-----------------------------------------------------------------------------
(* loginUser *)

(* validation, User.findOne and the password comparison on the document read *)
LoginFind(r, identifier, password) ==
    /\ Accept(r)
    /\ LET s == [Start(r, "login") EXCEPT
                    !.valid = /\ password # "" /\ identifier \in Existing
                              /\ password_hash[identifier] = BcryptHash(password)]
       IN req' = [req EXCEPT ![r] =
            IF identifier = "" \/ password = ""
              THEN Respond(s, 400, "Please provide username/email and password.")
            ELSE IF identifier \notin Existing
              THEN Respond(s, 404, "Invalid credentials.")
            ELSE IF ~isPasswordCorrect(password, password_hash[identifier])
              THEN Respond([s EXCEPT !.uid = identifier], 401, "Invalid credentials.")
            ELSE [s EXCEPT !.pc = "sign", !.uid = identifier]]
    /\ UNCHANGED <<now, password_hash, sessionVars, otpVars, gateVars, clientVars>>

(* generateAccessAndRefereshTokens up to its await: both tokens are signed *)
LoginSign(r) ==
    /\ req[r].op = "login" /\ req[r].pc = "sign"
    /\ req' = [req EXCEPT ![r].pc = "save",
                          ![r].accessToken = generateAccessToken(req[r].uid),
                          ![r].newTok = generateRefreshToken(req[r].uid)]
    /\ UNCHANGED <<now, quota, password_hash, sessionVars, otpVars, gateVars, clientVars>>

(* user.save() and the response: cookie and body *)
LoginSave(r) ==
    /\ req[r].op = "login" /\ req[r].pc = "save"
    /\ LET u == req[r].uid
           old == refresh_token[u]
           new == req[r].newTok
       IN /\ refresh_token' = [refresh_token EXCEPT ![u] = new]
          /\ dead' = IF old # NoToken /\ old # new THEN dead \cup {old} ELSE dead
          /\ issued' = issued \cup {new}
          /\ accessIssued' = accessIssued \cup {req[r].accessToken}
          /\ req' = [req EXCEPT ![r] =
               [Respond(req[r], 200, "Login successful.") EXCEPT !.refreshToken = new]]
    /\ UNCHANGED <<now, quota, password_hash, otpVars, gateVars, clientVars>>

-----------------------------------------------------------------------------
(* authenticate: the gate in front of a protected route *)

(* a gate that also asks the store whether the user still has a session *)
authenticateSessionBound(token) ==
    IF token = NoToken THEN 401
    ELSE IF JwtVerify(token, ACCESS_TOKEN_SECRET) # "ok" THEN 403
    ELSE IF token.sub \in Users /\ refresh_token[token.sub] = NoToken THEN 403
    ELSE 200

Cookies == UNION {{NoToken}, issued, {ForgedToken}}

BearerTokens == UNION {{NoToken}, accessIssued, {ForgedToken}}

authenticate(token) ==
    IF token = NoToken THEN 401
    ELSE IF JwtVerify(token, ACCESS_TOKEN_SECRET) # "ok" THEN 403
    ELSE 200

-----------------------------------------------------------------------------
(* refreshAccessToken *)

(* a comparison that only asks whether the user exists *)
RefreshTokenMatchesAnyStored(u, incoming) == u \in Existing

(* line 316: the user exists and the stored token is the incoming one *)
RefreshTokenMatches(u, incoming) == u \in Existing /\ refresh_token[u] = incoming

(* what refreshAccessToken answers to a cookie when it runs to its end now *)
RefreshAccepts(t) ==
    /\ t # NoToken
    /\ JwtVerify(t, REFRESH_TOKEN_SECRET) = "ok"
    /\ RefreshTokenMatches(t.sub, t)

(* the cookie check and jwt.verify, up to the await of User.findById *)
RefreshVerify(r, cookie) ==
    /\ Accept(r)
    /\ cookie \in Cookies
    /\ LET s == [Start(r, "refresh") EXCEPT !.cookie = cookie, !.valid = RefreshAccepts(cookie)]
           v == JwtVerify(cookie, REFRESH_TOKEN_SECRET)
       IN req' = [req EXCEPT ![r] =
            IF cookie = NoToken
              THEN Respond(s, 401, "Unauthorized: No refresh token provided.")
            ELSE IF v = "TokenExpiredError"
              THEN [Respond(s, 403, "Forbidden: Refresh token expired.")
                       EXCEPT !.cleared = TRUE]
            ELSE IF v = "JsonWebTokenError"
              THEN [Respond(s, 403, "Forbidden: Invalid refresh token.")
                       EXCEPT !.cleared = TRUE]
            ELSE [s EXCEPT !.pc = "find", !.uid = cookie.sub]]
    /\ UNCHANGED <<now, password_hash, sessionVars, otpVars, gateVars, clientVars>>

(* User.findById resolves, or throws into the generic catch: the          *)
(* comparison with the stored token and the response.  No refresh token is *)
(* generated, stored or returned.                                          *)
RefreshFind(r, ok) ==
    /\ req[r].op = "refresh" /\ req[r].pc = "find"
    /\ IF ~ok
         THEN /\ req' = [req EXCEPT ![r] =
                    Respond(req[r], 500, "Error refreshing access token.")]
              /\ UNCHANGED accessIssued
       ELSE IF ~RefreshTokenMatches(req[r].uid, req[r].cookie)
         THEN /\ req' = [req EXCEPT ![r] =
                    [Respond(req[r], 403, "Forbidden: Invalid refresh token.")
                        EXCEPT !.cleared = TRUE]]
              /\ UNCHANGED accessIssued
         ELSE /\ req' = [req EXCEPT ![r] =
                    [Respond(req[r], 200, "Access token refreshed.")
                        EXCEPT !.accessToken = generateAccessToken(req[r].uid)]]
              /\ accessIssued' = accessIssued \cup {generateAccessToken(req[r].uid)}
    /\ UNCHANGED <<now, quota, password_hash, refresh_token, issued, dead, otpVars, gateVars, clientVars>>

-----------------------------------------------------------------------------
(* logoutUser, behind authenticate (gated) or mounted without it *)

LogoutStart(r, gated, bearer, cookie) ==
    /\ Accept(r)
    /\ bearer \in BearerTokens
    /\ cookie \in Cookies
    /\ LET s == [Start(r, "logout") EXCEPT !.cookie = cookie]
       IN req' = [req EXCEPT ![r] =
            IF gated /\ authenticate(bearer) = 401
              THEN Respond(s, 401, "Unauthorized: No token provided.")
            ELSE IF gated /\ authenticate(bearer) = 403
              THEN Respond(s, 403, "Forbidden: Invalid token.")
            ELSE [s EXCEPT !.pc = "update",
                           !.uid = IF gated THEN bearer.sub ELSE "none"]]
    /\ UNCHANGED <<now, password_hash, sessionVars, otpVars, gateVars, clientVars>>

(* a filter that selects every user *)
LogoutMatchesAll(r) == Existing

(* the users User.findOneAndUpdate's filter selects: at most one is updated *)
LogoutMatches(r) ==
    IF req[r].uid # "none"
      THEN {u \in Existing : u = req[r].uid}
      ELSE {u \in Existing : refresh_token[u] = req[r].cookie}

(* res.clearCookie, then User.findOneAndUpdate(..., {$unset:               *)
(* {refresh_token}}) resolves, or throws, and the response                 *)
LogoutUpdate(r, ok) ==
    /\ req[r].op = "logout" /\ req[r].pc = "update"
    /\ \/ /\ ~ok \/ LogoutMatches(r) = {}
          /\ UNCHANGED <<refresh_token, dead>>
       \/ /\ ok
          /\ \E u \in LogoutMatches(r) :
               /\ refresh_token' = [refresh_token EXCEPT ![u] = NoToken]
               /\ dead' = IF refresh_token[u] # NoToken
                            THEN dead \cup {refresh_token[u]} ELSE dead
    /\ req' = [req EXCEPT ![r] =
         [(IF ok THEN Respond(req[r], 200, "User logged out successfully.")
                 ELSE Respond(req[r], 500, "Error logging out user."))
             EXCEPT !.cleared = TRUE, !.thrown = ~ok]]
    /\ UNCHANGED <<now, quota, password_hash, issued, accessIssued, otpVars, gateVars, clientVars>>

-----------------------------------------------------------------------------
(* The client has its response: the slot is free for another request. *)
Return(r) ==
    /\ req[r].pc = "done"
    /\ req' = [q \in Reqs |->
                 IF q = r THEN Idle ELSE [req[q] EXCEPT !.conc = req[q].conc \ {r}]]
    /\ UNCHANGED <<now, quota, password_hash, sessionVars, otpVars, gateVars, clientVars>>

Tick ==
    /\ now < MaxTime
    /\ now' = now + 1
    /\ UNCHANGED <<password_hash, req, quota, sessionVars, otpVars, gateVars, clientVars>>

(* The session handlers: the requests of one user and of unknown names. *)
SessionIdentifiers == {"u1", "", "nobody"}

NextSession ==
    \/ \E r \in Reqs, i \in SessionIdentifiers, p \in Passwords \cup {""} :
          LoginFind(r, i, p)
    \/ \E r \in Reqs : LoginSign(r)
    \/ \E r \in Reqs : LoginSave(r)
    \/ \E r \in Reqs, c \in Cookies : RefreshVerify(r, c)
    \/ \E r \in Reqs : RefreshFind(r, TRUE)
    \/ \E r \in Reqs, g \in BOOLEAN, b \in BearerTokens, c \in Cookies :
          LogoutStart(r, g, b, c)
    \/ \E r \in Reqs : LogoutUpdate(r, TRUE)
    \/ \E r \in Reqs : Return(r)
    \/ Tick

SpecSession == Init /\ [][NextSession]_vars

-----------------------------------------------------------------------------
(* The Token model: its pre-save hook stores a hash of the code, and       *)
(* compareToken compares a submitted code with that hash.                  *)

HashOtp(code) == <<"hash", code>>

compareToken(ch, otp) == HashOtp(otp) = ch.token

Challenges(u, type) == {t \in tokens : t.userId = u /\ t.type = type}

(* resetPassword without its Token.deleteOne *)
DeleteOneSkipped(id) == tokens

(* Token.deleteOne({ _id }) *)
DeleteOne(id) == {t \in tokens : t.id # id}

(* a deleteMany whose filter leaves out the type *)
DeleteManyAnyType(u, type) == {t \in tokens : t.userId # u}

(* Token.deleteMany({userId, type}) *)
DeleteMany(u, type) == tokens \ Challenges(u, type)

(* the code createAndSaveSubscriptionToken builds from the OTP *)
SubscriptionOtp(otp, billingCycle, slug) ==
    IF billingCycle = "monthly" THEN <<otp, "-m-", slug>>
    ELSE IF billingCycle = "annually" THEN <<otp, "-y-", slug>>
    ELSE <<otp, slug>>

ExpiryMinutes(type) ==
    IF type = "passwordReset" THEN OTP_EXPIRY_MINUTES
    ELSE SUBSCRIPTION_OTP_EXPIRY_MINUTES

-----------------------------------------------------------------------------
(* createAndSaveToken / createAndSaveSubscriptionToken up to token.save():  *)
(* Token.deleteMany({userId, type}) is applied, then the code is generated, *)
(* the expiry computed and the document built (save() stamps createdAt).    *)
CreateToken(r, rec, code) ==
    /\ tokens' = DeleteMany(rec.uid, rec.type)
    /\ nextId' = nextId + 1
    /\ req' = [req EXCEPT ![r] =
         [rec EXCEPT !.pc = "save", !.otp = code,
                     !.ch = [id |-> nextId + 1, userId |-> rec.uid,
                             type |-> rec.type, token |-> HashOtp(code),
                             expiresAt |-> now + ExpiryMinutes(rec.type) * 60,
                             createdAt |-> <<now, nextId + 1>>]]]

MsgResetSent == "If an account with that email exists, a password reset OTP has been sent."

(* requestPasswordReset up to the await of token.save().  User.findOne     *)
(* reads only what no handler changes, so it is taken together with the    *)
(* first store operation that follows it.                                  *)
requestPasswordReset(r, email, otp) ==
    /\ Accept(r)
    /\ IF email = ""
         THEN /\ req' = [req EXCEPT ![r] =
                   Respond(Start(r, "requestPasswordReset"), 400, "Email is required")]
              /\ UNCHANGED <<tokens, nextId>>
       ELSE IF email \notin Existing
         THEN /\ req' = [req EXCEPT ![r] =
                   Respond(Start(r, "requestPasswordReset"), 200, MsgResetSent)]
              /\ UNCHANGED <<tokens, nextId>>
       ELSE CreateToken(r, [Start(r, "requestPasswordReset") EXCEPT
                               !.uid = email, !.type = "passwordReset"], otp)
    /\ UNCHANGED <<now, password_hash, sessionVars, gateVars, consumedIds, superseded, succeeded, clientVars>>

(* generateSubscriptionToken, for the user the gate put in req.user, up to *)
(* the await of token.save()                                               *)
generateSubscriptionToken(r, u, planFound, billingCycle, otp) ==
    /\ Accept(r)
    /\ IF ~planFound
         THEN /\ req' = [req EXCEPT ![r] =
                   Respond([Start(r, "generateSubscriptionToken") EXCEPT !.uid = u],
                           400, "Invalid plan ID.")]
              /\ UNCHANGED <<tokens, nextId>>
         ELSE CreateToken(r, [Start(r, "generateSubscriptionToken") EXCEPT
                                 !.uid = u, !.type = "subscriptionToken"],
                          SubscriptionOtp(otp, billingCycle, "basic"))
    /\ UNCHANGED <<now, password_hash, sessionVars, gateVars, consumedIds, superseded, succeeded, clientVars>>

(* token.save() inserts the document; then sendNotification resolves, or   *)
(* throws into next(error), and the response is sent                       *)
SaveToken(r, sent) ==
    /\ req[r].pc = "save"
    /\ tokens' = tokens \cup {req[r].ch}
    /\ superseded' = superseded \cup {t.id : t \in Challenges(req[r].uid, req[r].type)}
    /\ req' = [req EXCEPT ![r] =
         IF ~sent THEN [Respond(req[r], 500, "Something broke!") EXCEPT !.notifyFailed = TRUE]
         ELSE IF req[r].op = "requestPasswordReset"
           THEN Respond(req[r], 200, MsgResetSent)
         ELSE Respond(req[r], 200, "subscription token has been sent to your email.")]
    /\ UNCHANGED <<now, quota, password_hash, sessionVars, gateVars, nextId, consumedIds, succeeded, clientVars>>

-----------------------------------------------------------------------------
(* resetPassword *)

MsgInvalidOrExpiredOtp == "Invalid or expired OTP."

(* Token.findOne without the expiresAt condition *)
NotExpiredUnchecked(t, date) == TRUE

(* the filter's expiresAt: { $gt: Date.now() } *)
NotExpired(t, date) == t.expiresAt > date

(* createdAt is a time in milliseconds: the second, and the order of the   *)
(* documents built within it                                              *)
Before(a, b) == a[1] < b[1] \/ (a[1] = b[1] /\ a[2] <= b[2])

(* the document Token.findOne(...).sort({ createdAt: -1 }) returns, if any *)
FindResetToken(u, date) ==
    LET live == {t \in Challenges(u, "passwordReset") : NotExpired(t, date)}
    IN {t \in live : \A o \in live : Before(o.createdAt, t.createdAt)}

(* resetPassword up to bcrypt.hash: validation, User.findOne (taken        *)
(* together with the store operation that follows it), Token.findOne and   *)
(* resetToken.compareToken(otp)                                            *)
ResetFindToken(r, email, otp, newPassword) ==
    /\ Accept(r)
    /\ LET s == [Start(r, "resetPassword") EXCEPT
                    !.uid = email, !.otp = otp, !.newPassword = newPassword,
                    !.qnow = now,
                    !.repeat = (<<email, otp, newPassword>> \in succeeded)]
           found == FindResetToken(email, now)
           lapsed == \E t \in Challenges(email, "passwordReset") : ~NotExpired(t, now)
       IN IF email = "" \/ otp = "" \/ newPassword = ""
            THEN req' = [req EXCEPT ![r] =
                   Respond(Start(r, "resetPassword"), 400,
                           "Email, OTP, and new password are required")]
          ELSE IF email \notin Existing
            THEN req' = [req EXCEPT ![r] =
                   Respond(Start(r, "resetPassword"), 400, "Invalid request.")]
          ELSE IF found = {}
            THEN req' = [req EXCEPT ![r] =
                   Respond([s EXCEPT !.expiredCase = lapsed], 400, MsgInvalidOrExpiredOtp)]
          ELSE LET t == CHOOSE x \in found : TRUE
               IN req' = [req EXCEPT ![r] =
                    IF ~compareToken(t, otp)
                      THEN Respond(s, 400, MsgInvalidOrExpiredOtp)
                      ELSE [s EXCEPT !.pc = "savePassword", !.ch = t]]
    /\ UNCHANGED <<now, password_hash, sessionVars, otpVars, gateVars, clientVars>>

(* bcrypt.hash and await user.save(): the password is replaced, or the     *)
(* store fails and the error goes to next(error)                           *)
ResetSavePassword(r, ok) ==
    /\ req[r].op = "resetPassword" /\ req[r].pc = "savePassword"
    /\ IF ok
         THEN /\ password_hash' = [password_hash EXCEPT
                                      ![req[r].uid] = BcryptHash(req[r].newPassword)]
              /\ req' = [req EXCEPT ![r].pc = "deleteOne", ![r].changed = TRUE]
         ELSE /\ req' = [req EXCEPT ![r] = Respond(req[r], 500, "Something broke!")]
              /\ UNCHANGED password_hash
    /\ UNCHANGED <<now, quota, sessionVars, otpVars, gateVars, clientVars>>

(* await Token.deleteOne({ _id: resetToken._id }), or the store fails;     *)
(* then the confirmation mail, whose failure is caught, and the response   *)
ResetDeleteOne(r, ok, sent) ==
    /\ req[r].op = "resetPassword" /\ req[r].pc = "deleteOne"
    /\ IF ok
         THEN /\ tokens' = DeleteOne(req[r].ch.id)
              /\ consumedIds' = consumedIds \cup {req[r].ch.id}
              /\ succeeded' = succeeded \cup {<<req[r].uid, req[r].otp, req[r].newPassword>>}
              /\ req' = [req EXCEPT ![r] =
                   [Respond(req[r], 200, "Password reset successfully.")
                       EXCEPT !.notifyFailed = ~sent]]
         ELSE /\ req' = [req EXCEPT ![r] = Respond(req[r], 500, "Something broke!")]
              /\ UNCHANGED <<tokens, consumedIds, succeeded>>
    /\ UNCHANGED <<now, quota, password_hash, sessionVars, gateVars, nextId, superseded, clientVars>>

-----------------------------------------------------------------------------
(* The expiry sweep, an external job: it removes documents past expiresAt. *)
Sweep ==
    /\ \E t \in tokens : t.expiresAt <= now /\ tokens' = tokens \ {t}
    /\ UNCHANGED <<now, quota, password_hash, req, sessionVars, gateVars, nextId,
                   consumedIds, superseded, succeeded, clientVars>>

TickMinute ==
    /\ now < 60 * MaxMinutes
    /\ now' = now + 60
    /\ UNCHANGED <<password_hash, req, quota, sessionVars, otpVars, gateVars, clientVars>>

(* The one-time-code handlers at one instant: the requests of one user and *)
(* of unknown addresses.                                                   *)
OtpEmails == {"u1", "", "nobody"}

NextOtp ==
    \/ \E r \in Reqs, e \in OtpEmails, c \in Codes : requestPasswordReset(r, e, c)
    \/ \E r \in Reqs, k \in BOOLEAN : SaveToken(r, k)
    \/ \E r \in Reqs, e \in OtpEmails, c \in Codes \cup {""}, p \in Passwords \cup {""} :
          ResetFindToken(r, e, c, p)
    \/ \E r \in Reqs, k \in BOOLEAN : ResetSavePassword(r, k)
    \/ \E r \in Reqs, k \in BOOLEAN, m \in BOOLEAN : ResetDeleteOne(r, k, m)
    \/ \E r \in Reqs : Return(r)

SpecOtp == InitOtp /\ [][NextOtp]_vars

(* The same handlers while time passes and the expiry sweep runs. *)
NextExpiry ==
    \/ NextOtp
    \/ TickMinute
    \/ Sweep

SpecExpiry == InitExpiry /\ [][NextExpiry]_vars

(* Issuing challenges only: both generators, for every user. *)
NextIssue ==
    \/ \E r \in Reqs, e \in Users \cup {"", "nobody"}, c \in Codes :
          requestPasswordReset(r, e, c)
    \/ \E r \in Reqs, u \in Users, f \in BOOLEAN,
          b \in {"monthly", "annually", "lifetime"}, c \in Codes :
          generateSubscriptionToken(r, u, f, b, c)
    \/ \E r \in Reqs, k \in BOOLEAN : SaveToken(r, k)
    \/ \E r \in Reqs : Return(r)

SpecIssue == InitIssue /\ [][NextIssue]_vars

(* Challenges of both types and of both users: the two generators and      *)
(* resetPassword, with the store and the notifications working.            *)
NextFrame ==
    \/ \E r \in Reqs, u \in Users : requestPasswordReset(r, u, "111111")
    \/ \E r \in Reqs, u \in Users :
          generateSubscriptionToken(r, u, TRUE, "monthly", "222222")
    \/ \E r \in Reqs : SaveToken(r, TRUE)
    \/ \E r \in Reqs, u \in Users : ResetFindToken(r, u, "111111", "pw2")
    \/ \E r \in Reqs : ResetSavePassword(r, TRUE)
    \/ \E r \in Reqs : ResetDeleteOne(r, TRUE, TRUE)
    \/ \E r \in Reqs : Return(r)

SpecFrame == InitFrame /\ [][NextFrame]_vars

(* A user with sessions recovers the password: loginUser, refreshAccessToken, *)
(* requestPasswordReset and resetPassword of one user.                        *)
NextRecovery ==
    \/ \E r \in Reqs, p \in Passwords : LoginFind(r, "u1", p)
    \/ \E r \in Reqs : LoginSign(r)
    \/ \E r \in Reqs : LoginSave(r)
    \/ \E r \in Reqs, c \in issued : RefreshVerify(r, c)
    \/ \E r \in Reqs : RefreshFind(r, TRUE)
    \/ \E r \in Reqs : requestPasswordReset(r, "u1", "111111")
    \/ \E r \in Reqs : SaveToken(r, TRUE)
    \/ \E r \in Reqs, c \in Codes, p \in Passwords : ResetFindToken(r, "u1", c, p)
    \/ \E r \in Reqs : ResetSavePassword(r, TRUE)
    \/ \E r \in Reqs, m \in BOOLEAN : ResetDeleteOne(r, TRUE, m)
    \/ \E r \in Reqs : Return(r)

SpecRecovery == InitRecovery /\ [][NextRecovery]_vars

-----------------------------------------------------------------------------
(* The Authorization header, a string: a sequence of words, tokens and     *)
(* single spaces.                                                          *)

(* a piece of text that is not a token: a word, or the space *)
Word(w) == [sub |-> w, iat |-> 0, exp |-> 0, key |-> "word"]

(* a string that is not a JSON web token: jwt.verify finds it malformed *)
MalformedToken == [sub |-> "none", iat |-> 0, exp |-> 0, key |-> "malformed"]

(* header.split(' '): the pieces between the spaces, empty ones included *)
RECURSIVE Split(_)
Split(h) ==
    IF h = <<>> THEN << <<>> >>
    ELSE LET rest == Split(Tail(h))
         IN IF Head(h) = Word(" ") THEN << <<>> >> \o rest
            ELSE << <<Head(h)>> \o Head(rest) >> \o Tail(rest)

(* authHeader && authHeader.split(' ')[1], as what jwt.verify is given:    *)
(* NoToken when the value is undefined or empty                            *)
BearerToken(header) ==
    LET parts == Split(header)
    IN IF Len(parts) < 2 \/ parts[2] = <<>> THEN NoToken
       ELSE IF Len(parts[2]) = 1 /\ parts[2][1].key # "word"
         THEN parts[2][1]
       ELSE MalformedToken

(* the header values a client sends around the token t *)
Headers(t) ==
    { <<>>, <<Word("Bearer")>>, <<Word("Bearer"), Word(" ")>>,
      <<Word("Bearer"), Word(" "), t>>, <<Word("Basic"), Word(" "), t>>,
      <<t>>, <<Word("Bearer"), t>>,
      <<Word("Bearer"), Word(" "), Word(" "), t>>,
      <<Word("Bearer"), Word(" "), t, Word(" "), Word("x")>> }

(* the header is the word Bearer, one space and a token: "Bearer TOKEN" *)
BearerForm(header) ==
    /\ Len(header) = 3
    /\ header[1] = Word("Bearer") /\ header[2] = Word(" ")
    /\ header[3].key # "word"

(* the response of a request that went through the gate; of the header the *)
(* form and the token taken from it are kept                               *)
GateRespond(rec, status, msg) ==
    [Respond(rec, status, msg) EXCEPT
        !.bearerForm = rec.bearerForm, !.loggedOut = rec.loggedOut,
        !.variant = rec.variant, !.qnow = rec.qnow,
        !.verified = rec.verified, !.found = rec.found, !.thrown = rec.thrown,
        !.nextCalled = rec.nextCalled]

(* the gate of unnamed/part_000 after jwt.verify: User.findById resolves   *)
(* with a document or with null, or it throws                              *)
GateLookupStoreErrorPasses(u, ok) ==
    IF u \in Existing \/ ~ok THEN 200 ELSE 404

GateLookupStatus(u, ok) ==
    IF ~ok THEN 500
    ELSE IF u \notin Existing THEN 404
    ELSE 200

(* GET /user-info: authenticate, then the handler.  The gate of            *)
(* authMiddleware.js runs to next() without an await; the gate of          *)
(* unnamed/part_000 awaits User.findById first.                            *)
GateVerify(r, variant, header) ==
    /\ Accept(r)
    /\ LET token == BearerToken(header)
           v == JwtVerify(token, ACCESS_TOKEN_SECRET)
           s == [Start(r, "userInfo") EXCEPT
                    !.header = header, !.bearerForm = BearerForm(header),
                    !.cookie = token, !.variant = variant, !.qnow = now,
                    !.loggedOut = (token.sub \in Users /\ refresh_token[token.sub] = NoToken),
                    !.verified = (token # NoToken /\ v = "ok"),
                    !.thrown = (token # NoToken /\ v # "ok"),
                    !.uid = IF token # NoToken /\ v = "ok" THEN token.sub ELSE "none"]
       IN req' = [req EXCEPT ![r] =
            IF variant = "plain"
              THEN IF authenticate(token) = 401
                     THEN GateRespond(s, 401, "Unauthorized: No token provided.")
                   ELSE IF authenticate(token) = 403
                     THEN GateRespond(s, 403,
                            IF v = "TokenExpiredError" THEN "Forbidden: Token expired."
                            ELSE "Forbidden: Invalid token.")
                   ELSE GateRespond([s EXCEPT !.nextCalled = TRUE, !.uid = token.sub],
                                    200, "This is a protected route.")
            ELSE IF token = NoToken
              THEN GateRespond(s, 401, "Unauthorized: No token provided.")
            ELSE IF v # "ok"
              THEN GateRespond(s, 403,
                     IF v = "TokenExpiredError" THEN "Forbidden: Token expired."
                     ELSE "Forbidden: Invalid token.")
            ELSE [s EXCEPT !.pc = "lookup"]]
    /\ UNCHANGED <<now, password_hash, sessionVars, otpVars, gateVars, clientVars>>

GateLookup(r, ok) ==
    /\ req[r].op = "userInfo" /\ req[r].pc = "lookup"
    /\ LET status == GateLookupStatus(req[r].uid, ok)
           s == [req[r] EXCEPT !.found = (ok /\ req[r].uid \in Existing),
                               !.thrown = ~ok,
                               !.nextCalled = (status = 200)]
       IN req' = [req EXCEPT ![r] =
            GateRespond(s, status,
              IF status = 500 THEN "Error authenticating user."
              ELSE IF status = 404 THEN "User not found."
              ELSE "This is a protected route.")]
    /\ UNCHANGED <<now, quota, password_hash, sessionVars, otpVars, gateVars, clientVars>>

(* A user document is removed from the store. *)
RemoveUser(u) ==
    /\ u \in Existing
    /\ removed' = removed \cup {u}
    /\ UNCHANGED <<now, quota, password_hash, req, sessionVars, otpVars,
                   policy, policySource, plans, clientVars>>

NextGate ==
    \/ \E r \in Reqs : LoginFind(r, "u1", "pw1")
    \/ \E r \in Reqs : LoginSign(r)
    \/ \E r \in Reqs : LoginSave(r)
    \/ \E r \in Reqs, c \in issued : LogoutStart(r, FALSE, NoToken, c)
    \/ \E r \in Reqs : LogoutUpdate(r, TRUE)
    \/ \E r \in Reqs, v \in {"plain", "lookup"}, t \in BearerTokens \ {NoToken} :
          \E h \in Headers(t) : GateVerify(r, v, h)
    \/ \E r \in Reqs, k \in BOOLEAN : GateLookup(r, k)
    \/ RemoveUser("u1")
    \/ \E r \in Reqs : Return(r)
    \/ Tick

SpecGate == InitGate /\ [][NextGate]_vars

(* POST /logout of two users with sessions, behind authenticate            *)
(* (unnamed/part_006) and without it (unnamed/part_007), while the store   *)
(* can fail.                                                               *)
NextLogout ==
    \/ \E r \in Reqs, u \in Users : LoginFind(r, u, "pw1")
    \/ \E r \in Reqs : LoginSign(r)
    \/ \E r \in Reqs : LoginSave(r)
    \/ \E r \in Reqs, g \in BOOLEAN, b \in BearerTokens, c \in Cookies :
          LogoutStart(r, g, b, c)
    \/ \E r \in Reqs, k \in BOOLEAN : LogoutUpdate(r, k)
    \/ \E r \in Reqs : Return(r)

SpecLogout == InitLogout /\ [][NextLogout]_vars

(* POST /refresh-token of a user who logs in and out and whose document    *)
(* can be removed, while time passes and the store can fail.               *)
NextRefresh ==
    \/ \E r \in Reqs : LoginFind(r, "u1", "pw1")
    \/ \E r \in Reqs : LoginSign(r)
    \/ \E r \in Reqs : LoginSave(r)
    \/ \E r \in Reqs, c \in Cookies : RefreshVerify(r, c)
    \/ \E r \in Reqs, k \in BOOLEAN : RefreshFind(r, k)
    \/ \E r \in Reqs, c \in issued : LogoutStart(r, FALSE, NoToken, c)
    \/ \E r \in Reqs : LogoutUpdate(r, TRUE)
    \/ RemoveUser("u1")
    \/ \E r \in Reqs : Return(r)
    \/ Tick

SpecRefresh == InitRefresh /\ [][NextRefresh]_vars

-----------------------------------------------------------------------------
(* The routes behind authenticate and authorize(resource).  The            *)
(* authorization engine (middleware/casbinAuthorize, services/casbin) is   *)
(* the AuthorizationEngine of the specification.                           *)

(* the routes: the resource authorize is given, and the method *)
Routes == {<<"admin", "PUT">>, <<"basic", "POST">>, <<"enterprise", "POST">>}

(* an engine that lets a role without any rule pass *)
checkUnknownRoleAllowed(roles, resource, action, P) ==
    \/ \E role \in roles : <<role, resource, action>> \in P
    \/ \E role \in roles : \A rule \in P : rule[1] # role

(* check(subjectRoles, resource, action) against the policy set P *)
check(roles, resource, action, P) ==
    \E role \in roles : <<role, resource, action>> \in P

(* a reload that clears the active set and does not load the source *)
reloadPoliciesCleared(source) == {}

(* reload(newPolicySet): the set that becomes active *)
reloadPolicies(source) == source

(* the response of a routed request *)
RouteRespond(rec, status, msg) ==
    [GateRespond(rec, status, msg) EXCEPT
        !.resource = rec.resource, !.action = rec.action, !.seen = rec.seen,
        !.allowed = rec.allowed, !.slug = rec.slug]

(* the request up to the await inside authorize: the gate of               *)
(* authMiddleware.js, which puts the token's subject in req.user           *)
RouteStart(r, route, token) ==
    /\ Accept(r)
    /\ token \in BearerTokens
    /\ LET s == [Start(r, "route") EXCEPT
                    !.cookie = token, !.variant = "plain", !.qnow = now,
                    !.resource = route[1], !.action = route[2]]
       IN req' = [req EXCEPT ![r] =
            IF authenticate(token) = 401
              THEN RouteRespond(s, 401, "Unauthorized: No token provided.")
            ELSE IF authenticate(token) = 403
              THEN RouteRespond(s, 403, "Forbidden: Invalid token.")
            ELSE [s EXCEPT !.pc = "authorize", !.uid = token.sub,
                           !.verified = TRUE, !.nextCalled = TRUE]]
    /\ UNCHANGED <<now, password_hash, sessionVars, otpVars, gateVars, clientVars>>

(* authorize decides against the active policy set; on allow the handler   *)
(* runs: the info routes answer, PUT /reload-policies awaits reloadPolicies *)
Authorize(r) ==
    /\ req[r].op = "route" /\ req[r].pc = "authorize"
    /\ LET roles == IF req[r].uid \in Existing THEN Roles[req[r].uid] ELSE {}
           ok == check(roles, req[r].resource, req[r].action, policy)
           s == [req[r] EXCEPT !.seen = policy, !.allowed = ok]
       IN req' = [req EXCEPT ![r] =
            IF ~ok THEN RouteRespond(s, 403, "Forbidden")
            ELSE IF req[r].resource = "admin" THEN [s EXCEPT !.pc = "reload"]
            ELSE RouteRespond(s, 200, "This is a protected route. accessed by")]
    /\ UNCHANGED <<now, quota, password_hash, sessionVars, otpVars, gateVars, clientVars>>

(* await reloadPolicies() resolves, or throws, and the response *)
ReloadPolicies(r, ok) ==
    /\ req[r].op = "route" /\ req[r].pc = "reload"
    /\ IF ok
         THEN /\ policy' = reloadPolicies(policySource)
              /\ req' = [req EXCEPT ![r] =
                   RouteRespond(req[r], 200, "Policies reloaded successfully. by")]
         ELSE /\ UNCHANGED policy
              /\ req' = [req EXCEPT ![r] =
                   RouteRespond(req[r], 500, "Error reloading policies.")]
    /\ UNCHANGED <<now, quota, password_hash, sessionVars, otpVars,
                   removed, policySource, plans, clientVars>>

(* An administrator edits the rules in the policy store. *)
EditPolicySource(P) ==
    /\ P \in PolicySets \ {policySource}
    /\ policySource' = P
    /\ UNCHANGED <<now, quota, password_hash, req, sessionVars, otpVars,
                   removed, policy, plans, clientVars>>

NextPolicy ==
    \/ \E r \in Reqs, u \in Users : LoginFind(r, u, "pw1")
    \/ \E r \in Reqs : LoginSign(r)
    \/ \E r \in Reqs : LoginSave(r)
    \/ \E r \in Reqs, x \in Routes, t \in BearerTokens : RouteStart(r, x, t)
    \/ \E r \in Reqs : Authorize(r)
    \/ \E r \in Reqs, k \in BOOLEAN : ReloadPolicies(r, k)
    \/ \E P \in PolicySets : EditPolicySource(P)
    \/ \E r \in Reqs : Return(r)

SpecPolicy == InitPolicy /\ [][NextPolicy]_vars

-----------------------------------------------------------------------------
(* routes/plan.js: POST, PUT and DELETE /plan are authenticate followed by *)
(* the controller.  A plan is its slug and its price.                      *)

PlanOps == {"addPlan", "updatePlan", "deletePlan"}

PlanWithSlug(slug) == {pl \in plans : pl.slug = slug}

(* the gate and the controller up to its first await: the validation of    *)
(* the body                                                                *)
PlanStart(r, op, token, slug, price) ==
    /\ Accept(r)
    /\ op \in PlanOps
    /\ token \in BearerTokens
    /\ LET s == [Start(r, op) EXCEPT
                    !.cookie = token, !.variant = "plain", !.qnow = now,
                    !.slug = slug, !.price = price]
           in == [s EXCEPT !.uid = token.sub, !.verified = TRUE, !.nextCalled = TRUE]
       IN req' = [req EXCEPT ![r] =
            IF authenticate(token) = 401
              THEN RouteRespond(s, 401, "Unauthorized: No token provided.")
            ELSE IF authenticate(token) = 403
              THEN RouteRespond(s, 403, "Forbidden: Invalid token.")
            ELSE IF slug = ""
              THEN RouteRespond(in, 400,
                     IF op = "addPlan"
                       THEN "Please provide name, slug, price, and billingCycle for the plan."
                     ELSE IF op = "updatePlan"
                       THEN "targetSlug is required in the request body to identify the plan."
                     ELSE "Plan slug is required.")
            ELSE [in EXCEPT !.pc = IF op = "deletePlan" THEN "findOneAndDelete"
                                   ELSE "findOne"]]
    /\ UNCHANGED <<now, password_hash, sessionVars, otpVars, gateVars, clientVars>>

(* addPlan and updatePlan: Plan.findOne resolves *)
PlanFindOne(r) ==
    /\ req[r].op \in {"addPlan", "updatePlan"} /\ req[r].pc = "findOne"
    /\ req' = [req EXCEPT ![r] =
         IF req[r].op = "addPlan"
           THEN IF PlanWithSlug(req[r].slug) # {}
                  THEN RouteRespond(req[r], 409, "A plan with this slug already exists.")
                  ELSE [req[r] EXCEPT !.pc = "save"]
           ELSE IF PlanWithSlug(req[r].slug) = {}
                  THEN RouteRespond(req[r], 404, "Plan not found.")
                  ELSE [req[r] EXCEPT !.pc = "findOneAndUpdate"]]
    /\ UNCHANGED <<now, quota, password_hash, sessionVars, otpVars, gateVars, clientVars>>

(* addPlan: newPlan.save(), refused by the unique index on a duplicate *)
PlanSave(r) ==
    /\ req[r].op = "addPlan" /\ req[r].pc = "save"
    /\ IF PlanWithSlug(req[r].slug) # {}
         THEN /\ UNCHANGED plans
              /\ req' = [req EXCEPT ![r] =
                   RouteRespond(req[r], 409, "A plan with this slug already exists.")]
         ELSE /\ plans' = plans \cup {[slug |-> req[r].slug, price |-> req[r].price]}
              /\ req' = [req EXCEPT ![r] =
                   RouteRespond(req[r], 201, "Plan created successfully.")]
    /\ UNCHANGED <<now, quota, password_hash, sessionVars, otpVars,
                   removed, policy, policySource, clientVars>>

(* updatePlan: Plan.findOneAndUpdate({slug}, {$set}) *)
PlanFindOneAndUpdate(r) ==
    /\ req[r].op = "updatePlan" /\ req[r].pc = "findOneAndUpdate"
    /\ IF PlanWithSlug(req[r].slug) = {}
         THEN /\ UNCHANGED plans
              /\ req' = [req EXCEPT ![r] =
                   RouteRespond(req[r], 404, "Plan not found during update attempt.")]
         ELSE /\ plans' = (plans \ PlanWithSlug(req[r].slug))
                             \cup {[slug |-> req[r].slug, price |-> req[r].price]}
              /\ req' = [req EXCEPT ![r] =
                   RouteRespond(req[r], 200, "Plan updated successfully.")]
    /\ UNCHANGED <<now, quota, password_hash, sessionVars, otpVars,
                   removed, policy, policySource, clientVars>>

(* deletePlan: Plan.findOneAndDelete({slug}) *)
PlanFindOneAndDelete(r) ==
    /\ req[r].op = "deletePlan" /\ req[r].pc = "findOneAndDelete"
    /\ IF PlanWithSlug(req[r].slug) = {}
         THEN /\ UNCHANGED plans
              /\ req' = [req EXCEPT ![r] =
                   RouteRespond(req[r], 404, "Plan not found.")]
         ELSE /\ plans' = plans \ PlanWithSlug(req[r].slug)
              /\ req' = [req EXCEPT ![r] =
                   RouteRespond(req[r], 200, "Plan deleted successfully.")]
    /\ UNCHANGED <<now, quota, password_hash, sessionVars, otpVars,
                   removed, policy, policySource, clientVars>>

NextPlans ==
    \/ \E r \in Reqs, u \in Users : LoginFind(r, u, "pw1")
    \/ \E r \in Reqs : LoginSign(r)
    \/ \E r \in Reqs : LoginSave(r)
    \/ \E r \in Reqs, o \in PlanOps, t \in BearerTokens, g \in Plans \cup {""},
          c \in Prices : PlanStart(r, o, t, g, c)
    \/ \E r \in Reqs : PlanFindOne(r)
    \/ \E r \in Reqs : PlanSave(r)
    \/ \E r \in Reqs : PlanFindOneAndUpdate(r)
    \/ \E r \in Reqs : PlanFindOneAndDelete(r)
    \/ \E r \in Reqs : Return(r)

SpecPlans == InitPlans /\ [][NextPlans]_vars

-----------------------------------------------------------------------------
(* The client: the NextAuth configuration of unnamed/part_011.  Its clock  *)
(* is Date.now(), in milliseconds.                                         *)

DateNow == now * 1000

Ok(res) == ~res.failed /\ res.status >= 200 /\ res.status <= 299

(* getJwtExpiration: exp of the payload in milliseconds, null (0) when the *)
(* token cannot be decoded                                                 *)
getJwtExpiration(token) == IF token = NoToken THEN 0 ELSE token.exp * 1000

(* the client's refreshAccessToken, given the response of its fetch *)
refreshAccessToken(token, res) ==
    IF ~Ok(res)
      THEN [token EXCEPT !.error = "RefreshAccessTokenError"]
      ELSE [token EXCEPT !.accessToken = res.accessToken,
                         !.accessTokenExpires = getJwtExpiration(res.accessToken),
                         !.refreshToken = res.refreshToken]

(* authorize after its fetch *)
authorize(res) ==
    IF ~Ok(res) THEN [NoResult EXCEPT !.kind = "throw"]
    ELSE IF res.user # "none" /\ res.accessToken # NoToken /\ res.refreshToken # NoToken
      THEN [kind |-> "user", id |-> res.user, accessToken |-> res.accessToken,
            refreshToken |-> res.refreshToken]
    ELSE [NoResult EXCEPT !.kind = "null"]

(* the jwt callback at the initial sign-in *)
jwtSignIn(token, user) ==
    [token EXCEPT !.id = user.id, !.accessToken = user.accessToken,
                  !.accessTokenExpires = getJwtExpiration(user.accessToken),
                  !.refreshToken = user.refreshToken]

(* the session callback *)
session(token) ==
    [id |-> token.id, accessToken |-> token.accessToken, error |-> token.error]

(* a test that leaves out the buffer *)
FreshWithoutBuffer(token, date) == date < token.accessTokenExpires

(* line 133: the access token is not within the buffer of its expiry *)
Fresh(token, date) == date < token.accessTokenExpires - bufferForRefresh

(* the body of the server's login response: message, accessToken and user; *)
(* the refresh token travels in the Set-Cookie header, not in the body     *)
LoginResponse(rec) ==
    [failed |-> FALSE, status |-> rec.status,
     user |-> IF rec.status = 200 THEN rec.uid ELSE "none",
     accessToken |-> rec.accessToken, refreshToken |-> NoToken]

(* The responses of an API server as the client reads them, for the client *)
(* on its own: the access token lives ClientLifetimes seconds.             *)
ClientLifetimes == {1, 6}

ApiAccessTokens == {SignJwt("u1", ACCESS_TOKEN_SECRET, l) : l \in ClientLifetimes}

(* a refresh token of the API server; the client does not look into it *)
ApiRefreshToken == [sub |-> "u1", iat |-> 0, exp |-> REFRESH_TOKEN_EXPIRY,
                    key |-> REFRESH_TOKEN_SECRET]

LoginResponses ==
    UNION { {[NoResponse EXCEPT !.failed = TRUE], [NoResponse EXCEPT !.status = 401]},
            {[failed |-> FALSE, status |-> 200, user |-> "u1", accessToken |-> a,
              refreshToken |-> t] :
                 a \in ApiAccessTokens, t \in {NoToken, ApiRefreshToken}} }

RefreshResponses ==
    UNION { {[NoResponse EXCEPT !.failed = TRUE], [NoResponse EXCEPT !.status = 403]},
            {[failed |-> FALSE, status |-> 200, user |-> "none", accessToken |-> a,
              refreshToken |-> t] :
                 a \in ApiAccessTokens, t \in {NoToken, ApiRefreshToken}} }

clientFrame == <<now, quota, password_hash, req, sessionVars, otpVars, gateVars>>

(* authorize(credentials) up to its fetch *)
AuthorizeCall(r, identifier, password) ==
    /\ cb[r].pc = "idle" /\ req[r].pc = "idle"
    /\ cb' = [cb EXCEPT ![r] =
         IF identifier = "" \/ password = ""
           THEN [IdleCall EXCEPT !.pc = "returned", !.op = "authorize",
                                 !.result = [NoResult EXCEPT !.kind = "null"]]
           ELSE [IdleCall EXCEPT !.pc = "send", !.op = "authorize",
                                 !.identifier = identifier, !.password = password]]
    /\ UNCHANGED <<clientFrame, nextAuthToken>>

(* the fetch of authorize resolves with a response of the API server *)
AuthorizeFetched(r, res) ==
    /\ cb[r].op = "authorize" /\ cb[r].pc = "send"
    /\ res \in LoginResponses
    /\ cb' = [cb EXCEPT ![r].pc = "returned", ![r].res = res,
                        ![r].result = authorize(res)]
    /\ UNCHANGED <<clientFrame, nextAuthToken>>

(* jwt({token, user}) after authorize returned a user *)
JwtSignIn(r) ==
    /\ cb[r].op = "authorize" /\ cb[r].pc = "returned" /\ cb[r].result.kind = "user"
    /\ nextAuthToken' = jwtSignIn(NoSession, cb[r].result)
    /\ cb' = [cb EXCEPT ![r] = IdleCall]
    /\ UNCHANGED clientFrame

(* jwt({token}) up to the fetch of refreshAccessToken, or to its return *)
JwtCallback(r) ==
    /\ cb[r].pc = "idle" /\ nextAuthToken # NoSession
    /\ LET c == [IdleCall EXCEPT !.op = "jwt", !.token = nextAuthToken]
       IN cb' = [cb EXCEPT ![r] =
            IF Fresh(nextAuthToken, DateNow)
              THEN [c EXCEPT !.pc = "returned", !.out = nextAuthToken]
              ELSE [c EXCEPT !.pc = "fetch", !.refreshed = TRUE]]
    /\ UNCHANGED <<clientFrame, nextAuthToken>>

(* the fetch of refreshAccessToken resolves; NextAuth keeps what jwt      *)
(* returns.  Of the response its status and its access token are kept.     *)
RefreshFetched(r, res) ==
    /\ cb[r].op = "jwt" /\ cb[r].pc = "fetch"
    /\ res \in RefreshResponses
    /\ LET out == refreshAccessToken(cb[r].token, res)
       IN /\ nextAuthToken' = out
          /\ cb' = [cb EXCEPT ![r].pc = "returned", ![r].out = out,
                              ![r].res = [res EXCEPT !.refreshToken = NoToken]]
    /\ UNCHANGED clientFrame

(* the callback is over *)
CallReturn(r) ==
    /\ cb[r].pc = "returned" /\ cb[r].result.kind # "user"
    /\ cb' = [cb EXCEPT ![r] = IdleCall]
    /\ UNCHANGED <<clientFrame, nextAuthToken>>

ClientTick ==
    /\ now < MaxTime
    /\ now' = now + 1
    /\ UNCHANGED <<password_hash, req, quota, sessionVars, otpVars, gateVars, clientVars>>

NextClient ==
    \/ \E r \in Reqs, i \in {"u1", ""} : AuthorizeCall(r, i, "pw1")
    \/ \E r \in Reqs : \E res \in LoginResponses : AuthorizeFetched(r, res)
    \/ \E r \in Reqs : JwtSignIn(r)
    \/ \E r \in Reqs : JwtCallback(r)
    \/ \E r \in Reqs : \E res \in RefreshResponses : RefreshFetched(r, res)
    \/ \E r \in Reqs : CallReturn(r)
    \/ ClientTick

SpecClient == InitClient /\ [][NextClient]_vars

(* The client's sign-in against the server: the fetch of authorize is a    *)
(* POST /login, and authorize reads the body of the server's response.     *)
AuthorizeSend(r) ==
    /\ cb[r].op = "authorize" /\ cb[r].pc = "send"
    /\ LoginFind(r, cb[r].identifier, cb[r].password)

AuthorizeResponse(r) ==
    /\ cb[r].op = "authorize" /\ cb[r].pc = "send"
    /\ req[r].op = "login" /\ req[r].pc = "done"
    /\ cb' = [cb EXCEPT ![r].pc = "returned", ![r].res = LoginResponse(req[r]),
                        ![r].result = authorize(LoginResponse(req[r]))]
    /\ req' = [q \in Reqs |->
                 IF q = r THEN Idle ELSE [req[q] EXCEPT !.conc = req[q].conc \ {r}]]
    /\ UNCHANGED <<now, quota, password_hash, sessionVars, otpVars, gateVars,
                   nextAuthToken>>

NextSignIn ==
    \/ \E r \in Reqs, i \in Users \cup {"", "nobody"}, p \in Passwords \cup {""} :
          AuthorizeCall(r, i, p)
    \/ \E r \in Reqs : AuthorizeSend(r)
    \/ \E r \in Reqs : LoginSign(r)
    \/ \E r \in Reqs : LoginSave(r)
    \/ \E r \in Reqs : AuthorizeResponse(r)
    \/ \E r \in Reqs : CallReturn(r)

SpecSignIn == InitSignIn /\ [][NextSignIn]_vars

-----------------------------------------------------------------------------
(* Properties of the session handlers, under SpecSession *)

(* C1: a refresh performed with a valid, currently stored refresh token     *)
(* returns a refresh token different from the one presented, and the        *)
(* presented token is no longer accepted by refresh once it has answered.   *)
C1_RefreshRotates ==
    [][\A r \in Reqs :
         (/\ req[r].op = "refresh" /\ req[r].pc = "find"
          /\ RefreshTokenMatches(req[r].uid, req[r].cookie)
          /\ req'[r].pc = "done")
         => /\ req'[r].status = 200
            /\ req'[r].refreshToken # NoToken
            /\ req'[r].refreshToken # req[r].cookie
            /\ ~RefreshAccepts(req[r].cookie)']_vars

(* C2: a refresh with a correctly signed, unexpired token that is not the   *)
(* one stored for its owner answers 403 and leaves the owner without a      *)
(* stored refresh token.                                                    *)
C2_StaleRefreshRevokesOwner ==
    [][\A r \in Reqs :
         (/\ req[r].op = "refresh" /\ req[r].pc = "find"
          /\ ~RefreshTokenMatches(req[r].uid, req[r].cookie)
          /\ req'[r].pc = "done")
         => /\ req'[r].status = 403
            /\ refresh_token'[req[r].uid] = NoToken]_vars

(* C3: of two refresh requests that present the same valid refresh token    *)
(* and overlap in time, exactly one answers 200 and the other answers 403.  *)
C3_OneConcurrentRefreshWins ==
    \A r1 \in Reqs : \A r2 \in Reqs \ {r1} :
        (/\ req[r1].op = "refresh" /\ req[r1].pc = "done" /\ req[r1].valid
         /\ req[r2].op = "refresh" /\ req[r2].pc = "done" /\ req[r2].valid
         /\ req[r1].cookie = req[r2].cookie
         /\ r1 \in req[r2].conc)
        => \/ req[r1].status = 200 /\ req[r2].status = 403
           \/ req[r1].status = 403 /\ req[r2].status = 200

(* C9: every user has at most one refresh token that refresh would accept,  *)
(* and when a login stores its new token every refresh token issued to that *)
(* user before is no longer accepted.                                       *)
C9_LoginSupersedesIssued ==
    /\ [](\A u \in Users :
            Cardinality({t \in issued : t.sub = u /\ RefreshAccepts(t)}) <= 1)
    /\ [][\A r \in Reqs :
            (req[r].op = "login" /\ req[r].pc = "save" /\ req'[r].pc = "done")
            => \A t \in issued : t.sub = req[r].uid => ~RefreshAccepts(t)']_vars

(* C10: a refresh token value that logout has unset or a later login has    *)
(* overwritten is never accepted by refresh again.                          *)
C10_DeadTokenStaysDead == \A t \in dead : ~RefreshAccepts(t)

-----------------------------------------------------------------------------
(* Properties of the one-time-code handlers *)

C5_OneChangePerChallenge ==
    \A r1 \in Reqs : \A r2 \in Reqs \ {r1} :
        ~(/\ req[r1].op = "resetPassword" /\ req[r1].changed
          /\ req[r2].op = "resetPassword" /\ req[r2].changed
          /\ req[r1].ch.id = req[r2].ch.id)

(* C6: once a generation for (user, type) has finished, no challenge of     *)
(* that (user, type) that existed before it passes verification.            *)
C6_SupersededCodeRejected ==
    [][\A r \in Reqs :
         (req[r].pc = "idle" /\ req'[r].op = "resetPassword"
          /\ req'[r].pc = "savePassword")
         => req'[r].ch.id \notin superseded]_vars

(* C7: when no generation for (user, type) is between its deleteMany and    *)
(* its save, at most one challenge of that (user, type) exists.             *)
C7_OneChallengePerUserType ==
    \A u \in Users, ty \in {"passwordReset", "subscriptionToken"} :
        (\A r \in Reqs : ~(req[r].pc = "save" /\ req[r].uid = u /\ req[r].type = ty))
        => Cardinality(Challenges(u, ty)) <= 1

-----------------------------------------------------------------------------
(* Properties of the recovery flow, under SpecRecovery *)

(* C11: when a resetPassword answers 200, no refresh token issued to its    *)
(* user before is accepted by refresh any more.                             *)
C11_ResetRevokesSessions ==
    [][\A r \in Reqs :
         (/\ req[r].op = "resetPassword" /\ req[r].pc = "deleteOne"
          /\ req'[r].pc = "done" /\ req'[r].status = 200)
         => \A t \in issued : t.sub = req[r].uid => ~RefreshAccepts(t)']_vars

(* C17: a request whose notification could not be sent still answers 200.   *)
C17_NotifyFailureKeepsSuccess ==
    \A r \in Reqs :
        (req[r].pc = "done" /\ req[r].notifyFailed) => req[r].status = 200

-----------------------------------------------------------------------------
(* Properties of the gate, under SpecGate *)

(* C12: a request whose Authorization header is absent or is not the word  *)
(* Bearer, one space and a token is answered 401 and does not reach the     *)
(* handler.                                                                 *)
C12_OnlyBearerFormPasses ==
    \A r \in Reqs :
        (req[r].op = "userInfo" /\ req[r].pc = "done" /\ ~req[r].bearerForm)
        => req[r].status = 401 /\ ~req[r].nextCalled

(* C13: next is called only after jwt.verify succeeded and, in the gate     *)
(* that looks the user up, the lookup returned a user; when jwt.verify or   *)
(* the lookup throws, the request is answered 403 or 500 and next is not    *)
(* called.                                                                  *)
C13_GateFailsClosed ==
    \A r \in Reqs :
        req[r].op = "userInfo" =>
          /\ req[r].nextCalled =>
                req[r].verified /\ (req[r].variant = "lookup" => req[r].found)
          /\ (req[r].pc = "done" /\ req[r].thrown) =>
                ~req[r].nextCalled /\ req[r].status \in {403, 500}

(* the store lookup of a verified request has thrown and the gate answered *)
C13_LookupThrew ==
    \E r \in Reqs :
        /\ req[r].op = "userInfo" /\ req[r].pc = "done"
        /\ req[r].variant = "lookup" /\ req[r].verified /\ req[r].thrown
        /\ req[r].status = 500 /\ ~req[r].nextCalled

(* C14: a request with a verified access token whose subject is no longer   *)
(* in the user store does not reach the handler.                            *)
C14_RemovedSubjectRejected ==
    [][\A r \in Reqs :
         (/\ req[r].pc # "done" /\ req'[r].pc = "done" /\ req'[r].op = "userInfo"
          /\ req'[r].verified /\ req'[r].uid \in removed)
         => ~req'[r].nextCalled /\ req'[r].status \in {401, 403, 404}]_vars

(* C15: jwt.verify of an access token succeeds exactly when the token is    *)
(* signed with the access secret and unexpired at the time of the request,  *)
(* whatever the store holds, and the gate of authMiddleware.js lets exactly *)
(* those requests through.                                                  *)
C15_AccessVerificationStateless ==
    \A r \in Reqs :
        (req[r].op = "userInfo" /\ req[r].pc \in {"lookup", "done"}) =>
          /\ req[r].verified <=>
                (req[r].cookie.key = ACCESS_TOKEN_SECRET /\ req[r].qnow < req[r].cookie.exp)
          /\ (req[r].variant = "plain" /\ req[r].pc = "done") =>
                (req[r].status = 200 <=> req[r].verified)

(* an access token has been accepted after its user had logged out *)
C15_AcceptedAfterLogout ==
    \E r \in Reqs :
        /\ req[r].op = "userInfo" /\ req[r].pc = "done" /\ req[r].variant = "plain"
        /\ req[r].status = 200 /\ req[r].loggedOut /\ req[r].cookie \in accessIssued

(* C16: no value stored in User.refresh_token is a refresh token that was  *)
(* handed to a client.                                                      *)
C16_StoredValueIsNotTheToken ==
    \A u \in Users : refresh_token[u] \notin issued

-----------------------------------------------------------------------------
(* Properties of the authorization engine, under SpecPolicy *)

(* C18: a request for which the policy set the engine decided against has   *)
(* no rule matching one of the user's roles, the route's resource and the   *)
(* method is denied: it is answered 403 and the route handler does not run. *)
C18_DefaultDeny ==
    \A r \in Reqs :
        (req[r].op = "route" /\ req[r].nextCalled /\ req[r].pc \in {"reload", "done"})
        => /\ req[r].allowed <=>
                 \E role \in Roles[req[r].uid] :
                     <<role, req[r].resource, req[r].action>> \in req[r].seen
           /\ ~req[r].allowed => req[r].pc = "done" /\ req[r].status = 403

(* a user without a rule for the resource, and a resource without any rule, *)
(* have been denied                                                         *)
C18_Denied ==
    \E r \in Reqs :
        /\ req[r].op = "route" /\ req[r].pc = "done" /\ req[r].nextCalled
        /\ ~req[r].allowed /\ req[r].status = 403
        /\ \A rule \in req[r].seen : rule[2] # req[r].resource

(* C19: every decision of authorize is taken against one complete policy    *)
(* set, the one active before a reload or the one the reload loads, also    *)
(* while a reload is in flight.                                             *)
C19_DecisionOnCompleteSet ==
    /\ policy \in PolicySets
    /\ \A r \in Reqs :
          (req[r].op = "route" /\ req[r].nextCalled /\ req[r].pc \in {"reload", "done"})
          => /\ req[r].seen \in PolicySets
             /\ req[r].allowed =
                   check(Roles[req[r].uid], req[r].resource, req[r].action, req[r].seen)

(* a decision has been taken while a reload of changed rules was in flight, *)
(* and another after the reload                                             *)
C19_DecidedDuringReload ==
    \E r \in Reqs : \E q \in Reqs \ {r} :
        /\ req[r].op = "route" /\ req[r].pc = "done" /\ req[r].nextCalled
        /\ req[r].resource = "basic"
        /\ req[q].op = "route" /\ req[q].pc = "done" /\ req[q].status = 200
        /\ req[q].resource = "admin"
        /\ q \in req[r].conc
        /\ policy = PolicyNew

-----------------------------------------------------------------------------
(* Properties of the plan routes, under SpecPlans *)

(* C20: a request that reaches addPlan, updatePlan or deletePlan comes from *)
(* a user with the admin role.                                              *)
C20_PlanChangesAdminOnly ==
    \A r \in Reqs :
        (req[r].op \in PlanOps /\ req[r].nextCalled)
        => "admin" \in Roles[req[r].uid]

-----------------------------------------------------------------------------
(* Further properties of the one-time-code handlers *)

(* C21: a requestPasswordReset for the e-mail of a registered user and one  *)
(* for an e-mail nobody registered get the same status and the same         *)
(* message, also when the notification could not be sent.                   *)
C21_ResetRequestHidesAccount ==
    \A r1 \in Reqs : \A r2 \in Reqs \ {r1} :
        (/\ req[r1].op = "requestPasswordReset" /\ req[r1].pc = "done"
         /\ req[r1].uid \in Users
         /\ req[r2].op = "requestPasswordReset" /\ req[r2].pc = "done"
         /\ req[r2].uid = "none" /\ req[r2].status # 400)
        => req[r1].status = req[r2].status /\ req[r1].msg = req[r2].msg

(* C24: when a resetPassword that has saved the new password ends, with a   *)
(* success or with an error, the challenge it verified is no longer in the  *)
(* Token collection.                                                        *)
C24_ChangeDeletesChallenge ==
    [][\A r \in Reqs :
         (/\ req[r].op = "resetPassword" /\ req[r].pc = "deleteOne"
          /\ req'[r].pc = "done")
         => \A t \in tokens' : t.id # req[r].ch.id]_vars

-----------------------------------------------------------------------------
(* Further properties of the session handlers, under SpecSession *)

(* C23: a login with a missing field, an unknown identifier or a wrong      *)
(* password is answered 400, 404 or 401 at once, carries no token, leaves   *)
(* every stored refresh token as it is, and every refresh token that        *)
(* refresh accepted before it is accepted after it.                         *)
C23_FailedLoginChangesNothing ==
    [][\A r \in Reqs :
         (req[r].pc = "idle" /\ req'[r].op = "login" /\ ~req'[r].valid)
         => /\ req'[r].pc = "done"
            /\ req'[r].status \in {400, 401, 404}
            /\ req'[r].accessToken = NoToken /\ req'[r].refreshToken = NoToken
            /\ refresh_token' = refresh_token
            /\ issued' = issued /\ accessIssued' = accessIssued
            /\ \A t \in issued : RefreshAccepts(t) <=> RefreshAccepts(t)']_vars

(* a login with a wrong password has failed while the user's session is     *)
(* one refresh accepts                                                      *)
C23_FailedLoginKeptSession ==
    \E r \in Reqs :
        /\ req[r].op = "login" /\ req[r].pc = "done" /\ ~req[r].valid
        /\ req[r].status = 401 /\ req[r].uid = "u1"
        /\ RefreshAccepts(refresh_token["u1"])

-----------------------------------------------------------------------------
(* Properties of refreshAccessToken, under SpecRefresh *)

(* C22, as claimed: refreshAccessToken answers 401 without a cookie and   *)
(* 403 to a token of a wrong signature or an expired one, both at once;     *)
(* after the lookup it answers 200 with a new access token only if the user *)
(* is in the store and its stored token is the cookie's; in every other     *)
(* case it answers 401 or 403 and issues no token.                          *)
C22_RefreshOnlyOnStoredToken ==
    [][\A r \in Reqs :
           /\ (req[r].pc = "idle" /\ req'[r].op = "refresh") =>
                 LET c == req'[r].cookie
                 IN IF c # NoToken /\ c.key = REFRESH_TOKEN_SECRET /\ now < c.exp
                      THEN req'[r].pc = "find" /\ accessIssued' = accessIssued
                      ELSE /\ req'[r].pc = "done"
                           /\ req'[r].status = IF c = NoToken THEN 401 ELSE 403
                           /\ req'[r].accessToken = NoToken
                           /\ accessIssued' = accessIssued
           /\ (req[r].op = "refresh" /\ req[r].pc = "find" /\ req'[r].pc = "done") =>
                 LET stored == /\ req[r].uid \in Users \ removed
                               /\ refresh_token[req[r].uid] = req[r].cookie
                 IN IF req'[r].status = 200
                      THEN /\ stored
                           /\ req'[r].accessToken = generateAccessToken(req[r].uid)
                      ELSE /\ req'[r].status \in {401, 403}
                           /\ req'[r].status = 403 => ~stored
                           /\ req'[r].accessToken = NoToken
                           /\ accessIssued' = accessIssued]_vars

(* C22, amended: as above, and in every other case it answers 401 or 403   *)
(* (403 only for a token that is not the stored one), or 500 when the       *)
(* lookup of the user fails, and issues no token.                           *)
C22_RefreshOnlyOnStoredTokenOr500 ==
    [][\A r \in Reqs :
           /\ (req[r].pc = "idle" /\ req'[r].op = "refresh") =>
                 LET c == req'[r].cookie
                 IN IF c # NoToken /\ c.key = REFRESH_TOKEN_SECRET /\ now < c.exp
                      THEN req'[r].pc = "find" /\ accessIssued' = accessIssued
                      ELSE /\ req'[r].pc = "done"
                           /\ req'[r].status = IF c = NoToken THEN 401 ELSE 403
                           /\ req'[r].accessToken = NoToken
                           /\ accessIssued' = accessIssued
           /\ (req[r].op = "refresh" /\ req[r].pc = "find" /\ req'[r].pc = "done") =>
                 LET stored == /\ req[r].uid \in Users \ removed
                               /\ refresh_token[req[r].uid] = req[r].cookie
                 IN IF req'[r].status = 200
                      THEN /\ stored
                           /\ req'[r].accessToken = generateAccessToken(req[r].uid)
                      ELSE /\ req'[r].status \in {401, 403, 500}
                           /\ req'[r].status = 403 => ~stored
                           /\ req'[r].accessToken = NoToken
                           /\ accessIssued' = accessIssued]_vars

(* a refresh has been answered 200 with an access token, and another, with  *)
(* a token the server signed whose user is gone or has another token        *)
(* stored, has been answered 403                                            *)
C22_AcceptedAndRefused ==
    \E r \in Reqs : \E q \in Reqs \ {r} :
        /\ req[r].op = "refresh" /\ req[r].pc = "done" /\ req[r].status = 200
        /\ req[r].accessToken # NoToken
        /\ req[q].op = "refresh" /\ req[q].pc = "done" /\ req[q].status = 403
        /\ req[q].cookie \in issued /\ req[q].uid = "u1"

-----------------------------------------------------------------------------
(* Properties of the Token collection, under SpecFrame *)

(* C25: a challenge leaves the Token collection only in the deleteMany of a *)
(* generation for its own user and type or in the deleteOne of a            *)
(* resetPassword of its own user, and a challenge enters it only in the     *)
(* save of a generation for its user and type: every challenge of another   *)
(* type or of another user stays as it is.                                  *)
C25_OtherChallengesUntouched ==
    [][/\ \A t \in tokens \ tokens' : \E r \in Reqs :
             \/ /\ req[r].pc = "idle" /\ req'[r].pc = "save"
                /\ req'[r].uid = t.userId /\ req'[r].type = t.type
             \/ /\ req[r].op = "resetPassword" /\ req[r].pc = "deleteOne"
                /\ req'[r].pc = "done"
                /\ req[r].uid = t.userId /\ t.type = "passwordReset"
                /\ req[r].ch.id = t.id
       /\ \A t \in tokens' \ tokens : \E r \in Reqs :
             /\ req[r].pc = "save" /\ req'[r].pc = "done"
             /\ req[r].uid = t.userId /\ req[r].type = t.type]_vars

(* a subscription token was generated for a user whose password-reset code  *)
(* was pending, after a challenge of the other user, and all three are in   *)
(* the collection                                                           *)
C25_BothTypesPending ==
    \E a \in tokens, b \in tokens, c \in tokens :
        /\ a.userId = b.userId /\ a.type = "passwordReset"
        /\ b.type = "subscriptionToken" /\ a.id < b.id
        /\ c.userId # a.userId /\ c.id < b.id

-----------------------------------------------------------------------------
(* Properties of logoutUser, under SpecLogout *)

(* C26: a logoutUser changes the stored refresh token of at most one user,  *)
(* the user the gate put in req.user or else a user whose stored token is   *)
(* the cookie's value, and unsets it; it clears the cookie, and when        *)
(* findOneAndUpdate has resolved it answers 200, a user matched or not.     *)
C26_LogoutTouchesOneUser ==
    [][\A r \in Reqs :
         (req[r].op = "logout" /\ req[r].pc = "update" /\ req'[r].pc = "done")
         => LET changed == {u \in Users : refresh_token'[u] # refresh_token[u]}
                target == IF req[r].uid # "none" THEN {req[r].uid}
                          ELSE {u \in Users : refresh_token[u] = req[r].cookie}
            IN /\ Cardinality(changed) <= 1
               /\ changed \subseteq target
               /\ \A u \in changed : refresh_token'[u] = NoToken
               /\ req'[r].cleared
               /\ ~req'[r].thrown => req'[r].status = 200]_vars

(* a logout has unset the token of one user while the other user's session  *)
(* is stored, and a logout that matched nobody has been answered 200        *)
C26_OneLoggedOutOtherKept ==
    \E r \in Reqs : \E u \in Users : \E w \in Users \ {u} :
        /\ req[r].op = "logout" /\ req[r].pc = "done"
        /\ req[r].status = 200 /\ req[r].cleared
        /\ req[r].uid = "none" /\ req[r].cookie = ForgedToken
        /\ refresh_token[u] = NoToken /\ \E t \in dead : t.sub = u
        /\ refresh_token[w] \in issued

-----------------------------------------------------------------------------
(* Properties of the client, under SpecClient and SpecSignIn *)

C28_SuccessClearsError ==
    \A r \in Reqs :
        (cb[r].op = "jwt" /\ cb[r].pc = "returned" /\ cb[r].refreshed /\ Ok(cb[r].res))
        => /\ session(cb[r].out).accessToken = cb[r].res.accessToken
           /\ session(cb[r].out).error = ""

(* C29: every sign-in the server's loginUser answers with 200 makes         *)
(* authorize return a user, and every refresh call of the client that       *)
(* carries the refresh token stored for a user is accepted by the server.   *)
C29_ClientAndServerAgree ==
    \A r \in Reqs :
        /\ (cb[r].op = "authorize" /\ cb[r].pc = "returned" /\ cb[r].res.status = 200)
           => cb[r].result.kind = "user"
        /\ (/\ cb[r].op = "jwt" /\ cb[r].pc = "returned" /\ cb[r].refreshed
            /\ cb[r].token.refreshToken # NoToken
            /\ \E u \in Users : refresh_token[u] = cb[r].token.refreshToken)
           => Ok(cb[r].res)

====
